---- MODULE Spec2Model ----
(***************************************************************************)
(* Model of ProkaryoteAssembly/prokaryote_assemble_dir.py: the discovery   *)
(* of read files, the derivation of sample ids, the pairing of forward and *)
(* reverse reads and the per-sample loop of assemble_dir.                  *)
(*                                                                         *)
(* A Python str is a sequence of one-character strings, so that "in" and   *)
(* split are computed, not assumed.  None is the empty sequence: no file   *)
(* the glob returns has an empty name.                                     *)
(***************************************************************************)
EXTENDS Naturals, Sequences, FiniteSets

\* The largest number of entries of the input directory.
MaxFiles == 4

None == <<>>

Range(s) == {s[i] : i \in 1..Len(s)}

\* Every arrangement of the finite set S as a list without repetition.
Orderings(S) ==
    {q \in [1..Cardinality(S) -> S] : \A i, j \in 1..Cardinality(S) : q[i] = q[j] => i = j}

----------------------------------------------------------------------------
(* Names *)

FQ == <<".", "f", "q">>
TXT == <<".", "t", "x", "t">>
MarkR1 == <<"_", "R", "1">>
MarkR2 == <<"_", "R", "2">>
IdS1 == <<"S", "1">>
IdS10 == <<"S", "1", "0">>
IdS1x == <<"S", "1", "_", "x">>
IdS3 == <<"S", "3">>

\* The file names an input directory may hold.
FilePool ==
    { IdS1 \o MarkR1 \o FQ, IdS1 \o MarkR2 \o FQ,
      IdS10 \o MarkR1 \o FQ, IdS10 \o MarkR2 \o FQ,
      IdS1x \o MarkR1 \o FQ, IdS1x \o MarkR2 \o FQ,
      IdS10 \o MarkR2 \o MarkR1 \o FQ,
      IdS3 \o FQ, IdS3 \o TXT }

\* The values of --fwd_id and --rev_id: the defaults, and the two swapped.
MarkerPairs == { <<MarkR1, MarkR2>>, <<MarkR2, MarkR1>> }

----------------------------------------------------------------------------
(* str operations *)

\* sub in s
Contains(sub, s) ==
    \E i \in 0..Len(s) : i + Len(sub) <= Len(s) /\ SubSeq(s, i + 1, i + Len(sub)) = sub

\* s.split(sep) for a one-character sep: the list of the fields between the seps.
RECURSIVE split(_, _)
split(s, sep) ==
    IF \A i \in 1..Len(s) : s[i] # sep
    THEN <<s>>
    ELSE LET i == CHOOSE k \in 1..Len(s) : s[k] = sep /\ \A j \in 1..(k - 1) : s[j] # sep
         IN  <<SubSeq(s, 1, i - 1)>> \o split(SubSeq(s, i + 1, Len(s)), sep)

\* fnmatch of a name against "*.f*q*"
GlobMatch(name) ==
    \E i \in 1..Len(name) : \E j \in 1..Len(name) :
        /\ name[i] = "."
        /\ i + 1 <= Len(name) /\ name[i + 1] = "f"
        /\ j >= i + 2 /\ name[j] = "q"

----------------------------------------------------------------------------
(* retrieve_fastqgz, retrieve_sampleids, get_readpair *)

\* The lists directory.glob("*.f*q*") may return: the matching entries in any
\* order, and no entry at all when the directory does not exist.
retrieve_fastqgz(directory) ==
    IF directory.exists
    THEN Orderings({f \in directory.files : GlobMatch(f)})
    ELSE {<<>>}

\* As sample_id_list taking the last field of the split for the first.
sample_id_list_lastfield(files) ==
    [i \in 1..Len(files) |-> LET p == split(files[i], "_") IN p[Len(p)]]

\* The list built by the loop: one sample id per file.
sample_id_list(files) == [i \in 1..Len(files) |-> split(files[i], "_")[1]]

\* As retrieve_sampleids without list(set(...)).
retrieve_sampleids_nodedup(files) == {sample_id_list(files)}

\* The lists retrieve_sampleids may return: list(set(...)) in any order.
retrieve_sampleids(files) == Orderings(Range(sample_id_list(files)))

\* As slot_update without the test of the sample id.
slot_update_anysample(f, sample_id, forward_id, reverse_id, r) ==
    IF Contains(forward_id, f) THEN <<f, r[2]>>
    ELSE IF Contains(reverse_id, f) THEN <<r[1], f>>
    ELSE r

\* As slot_update keeping the first match of a slot.
slot_update_firstwins(f, sample_id, forward_id, reverse_id, r) ==
    IF Contains(sample_id, f)
    THEN IF Contains(forward_id, f) THEN (IF r[1] = None THEN <<f, r[2]>> ELSE r)
         ELSE IF Contains(reverse_id, f) THEN (IF r[2] = None THEN <<r[1], f>> ELSE r)
         ELSE r
    ELSE r

\* One pass of the loop body of get_readpair over file f; r is <<r1, r2>>.
slot_update(f, sample_id, forward_id, reverse_id, r) ==
    IF Contains(sample_id, f)
    THEN IF Contains(forward_id, f) THEN <<f, r[2]>>
         ELSE IF Contains(reverse_id, f) THEN <<r[1], f>>
         ELSE r
    ELSE r

\* The loop of get_readpair from file i on.
RECURSIVE scan_files(_, _, _, _, _, _)
scan_files(sample_id, files, forward_id, reverse_id, i, r) ==
    IF i > Len(files)
    THEN r
    ELSE scan_files(sample_id, files, forward_id, reverse_id, i + 1,
                    slot_update(files[i], sample_id, forward_id, reverse_id, r))

\* As get_readpair with "or" for "and".
get_readpair_or(sample_id, files, forward_id, reverse_id) ==
    LET r == scan_files(sample_id, files, forward_id, reverse_id, 1, <<None, None>>)
    IN  IF r[1] # None \/ r[2] # None THEN r ELSE None

get_readpair(sample_id, files, forward_id, reverse_id) ==
    LET r == scan_files(sample_id, files, forward_id, reverse_id, 1, <<None, None>>)
    IN  IF r[1] # None /\ r[2] # None THEN r ELSE None

----------------------------------------------------------------------------
(* assemble_dir *)

VARIABLES
    input_dir,        \* the input directory: whether it exists, and its entries
    fwd_id, rev_id,   \* the markers
    pc,               \* the statement of assemble_dir about to run
    fastq_file_list,
    sample_ids,
    idx,              \* the position of the for loop in sample_ids
    r1, r2,
    dirs,             \* the sample ids whose output directory line 61 made
    calls,            \* the invocations of assembly_pipeline
    cleaned,          \* the sample ids clean_up returned for
    status,           \* per sample: how far the loop body got with it
    err               \* the exception that ended the run, or "none"

vars == <<input_dir, fwd_id, rev_id, pc, fastq_file_list, sample_ids, idx, r1, r2,
          dirs, calls, cleaned, status, err>>

Init ==
    /\ input_dir \in
         {[exists |-> FALSE, files |-> {}]} \cup
         {[exists |-> TRUE, files |-> F] :
             F \in {G \in SUBSET FilePool : Cardinality(G) <= MaxFiles}}
    /\ \E m \in MarkerPairs : fwd_id = m[1] /\ rev_id = m[2]
    /\ pc = "start"
    /\ fastq_file_list = <<>>
    /\ sample_ids = <<>>
    /\ idx = 0
    /\ r1 = None
    /\ r2 = None
    /\ dirs = {}
    /\ calls = {}
    /\ cleaned = {}
    /\ status = <<>>
    /\ err = "none"

\* The for statement at position i of ids: the body, or the statement after the loop.
LoopHead(ids, i) == IF i <= Len(ids) THEN "pair" ELSE "complete"

\* As Raised with the loop body wrapped in a handler that goes on to the next sample.
RaisedAndSkipped(kind) ==
    /\ err' = kind
    /\ idx' = idx + 1
    /\ pc' = LoopHead(sample_ids, idx + 1)

\* An exception in assemble_dir: nothing catches it, the run ends.
Raised(kind) ==
    /\ err' = kind
    /\ idx' = idx
    /\ pc' = "error"

\* Line 46
MakeOutDir ==
    /\ pc = "start"
    /\ \/ pc' = "scan" /\ err' = err
       \/ pc' = "error" /\ err' = "makedirs_root"
    /\ UNCHANGED <<input_dir, fwd_id, rev_id, fastq_file_list, sample_ids, idx, r1, r2,
                   dirs, calls, cleaned, status>>

\* Line 50
Scan ==
    /\ pc = "scan"
    /\ fastq_file_list' \in retrieve_fastqgz(input_dir)
    /\ pc' = "ids"
    /\ UNCHANGED <<input_dir, fwd_id, rev_id, sample_ids, idx, r1, r2,
                   dirs, calls, cleaned, status, err>>

\* Lines 53-57
FindIds ==
    /\ pc = "ids"
    /\ sample_ids' \in retrieve_sampleids(fastq_file_list)
    /\ status' = [s \in Range(sample_ids') |-> "Discovered"]
    /\ idx' = 1
    /\ pc' = LoopHead(sample_ids', 1)
    /\ UNCHANGED <<input_dir, fwd_id, rev_id, fastq_file_list, r1, r2,
                   dirs, calls, cleaned, err>>

\* Lines 58-60: the call of get_readpair and the unpacking of what it returns.
Pair ==
    /\ pc = "pair"
    /\ LET sample_id == sample_ids[idx]
           rp == get_readpair(sample_id, fastq_file_list, fwd_id, rev_id)
       IN  \/ /\ rp # None
              /\ r1' = rp[1]
              /\ r2' = rp[2]
              /\ status' = [status EXCEPT ![sample_id] = "Paired"]
              /\ pc' = "mkdir"
              /\ UNCHANGED <<idx, err>>
           \/ /\ rp = None
              /\ status' = [status EXCEPT ![sample_id] = "PairingFailed"]
              /\ Raised("TypeError")
              /\ UNCHANGED <<r1, r2>>
    /\ UNCHANGED <<input_dir, fwd_id, rev_id, fastq_file_list, sample_ids,
                   dirs, calls, cleaned>>

\* Line 61
MakeSampleDir ==
    /\ pc = "mkdir"
    /\ \/ /\ dirs' = dirs \cup {sample_ids[idx]}
          /\ status' = [status EXCEPT ![sample_ids[idx]] = "DirectoryReady"]
          /\ pc' = "pipeline"
          /\ UNCHANGED <<idx, err>>
       \/ /\ Raised("makedirs")
          /\ UNCHANGED <<dirs, status>>
    /\ UNCHANGED <<input_dir, fwd_id, rev_id, fastq_file_list, sample_ids, r1, r2,
                   calls, cleaned>>

\* As Pipeline with the pipeline started and not waited for.
PipelineAsync ==
    /\ pc = "pipeline"
    /\ calls' = calls \cup {[sample_id |-> sample_ids[idx], fwd_reads |-> r1, rev_reads |-> r2]}
    /\ idx' = idx + 1
    /\ pc' = LoopHead(sample_ids, idx + 1)
    /\ UNCHANGED <<input_dir, fwd_id, rev_id, fastq_file_list, sample_ids, r1, r2,
                   dirs, cleaned, status, err>>

\* Line 62
Pipeline ==
    /\ pc = "pipeline"
    /\ calls' = calls \cup {[sample_id |-> sample_ids[idx], fwd_reads |-> r1, rev_reads |-> r2]}
    /\ \/ /\ status' = [status EXCEPT ![sample_ids[idx]] = "PipelineComplete"]
          /\ pc' = "cleanup"
          /\ UNCHANGED <<idx, err>>
       \/ /\ Raised("assembly_pipeline")
          /\ UNCHANGED status
    /\ UNCHANGED <<input_dir, fwd_id, rev_id, fastq_file_list, sample_ids, r1, r2,
                   dirs, cleaned>>

\* Line 63, and the for statement's step to the next sample.
CleanUp ==
    /\ pc = "cleanup"
    /\ \/ /\ cleaned' = cleaned \cup {sample_ids[idx]}
          /\ status' = [status EXCEPT ![sample_ids[idx]] = "CleanedUp"]
          /\ idx' = idx + 1
          /\ pc' = LoopHead(sample_ids, idx + 1)
          /\ err' = err
       \/ /\ Raised("clean_up")
          /\ UNCHANGED <<cleaned, status>>
    /\ UNCHANGED <<input_dir, fwd_id, rev_id, fastq_file_list, sample_ids, r1, r2,
                   dirs, calls>>

\* Line 64
Complete ==
    /\ pc = "complete"
    /\ pc' = "done"
    /\ UNCHANGED <<input_dir, fwd_id, rev_id, fastq_file_list, sample_ids, idx, r1, r2,
                   dirs, calls, cleaned, status, err>>

Next ==
    \/ MakeOutDir
    \/ Scan
    \/ FindIds
    \/ Pair
    \/ MakeSampleDir
    \/ Pipeline
    \/ CleanUp
    \/ Complete

Spec == Init /\ [][Next]_vars

----------------------------------------------------------------------------
(* Properties *)

\* The sample ids are listed: assemble_dir is past line 53.
Listed == pc \notin {"start", "scan", "ids"} /\ err # "makedirs_root"

DefaultMarkers == fwd_id = MarkR1 /\ rev_id = MarkR2

Max(S) == CHOOSE m \in S : \A x \in S : x <= m

\* The slots the loop of get_readpair resolves for s over the scanned list.
Resolved(s) == scan_files(s, fastq_file_list, fwd_id, rev_id, 1, <<None, None>>)

\* Pairing fails for s: zero or one of the two slots is resolved.
PairingFails(s) == LET r == Resolved(s) IN r[1] = None \/ r[2] = None

CalledFor(s) == \E c \in calls : c.sample_id = s

\* C1: for a sample id whose pairing fails, no output directory is made, and
\* neither assembly_pipeline nor clean_up is invoked, whatever the file names
\* and the markers.
\* (PairingFails(s) => nothing was done for s, with the cheap side tested first.)
C1_NoOutputForUnpaired ==
    \A s \in Range(sample_ids) :
        (s \notin dirs /\ ~CalledFor(s) /\ s \notin cleaned) \/ ~PairingFails(s)

\* A sample failed to pair after another sample got its output directory.
C1_Witness ==
    \E s \in Range(sample_ids) :
        PairingFails(s) /\ status[s] = "PairingFailed" /\ dirs # {}

ExternalFailures == {"makedirs_root", "makedirs", "assembly_pipeline", "clean_up"}

\* C2: a run in which no external step fails ends at the completion step, every
\* pairable sample cleaned up and every unpairable one skipped.
C2_PairingFailureNonFatal ==
    (pc \in {"done", "error"} /\ err \notin ExternalFailures) =>
        /\ pc = "done"
        /\ \A s \in Range(sample_ids) :
              status[s] = (IF PairingFails(s) THEN "PairingFailed" ELSE "CleanedUp")

\* C3: every invocation of assembly_pipeline gets two resolved reads, both
\* names containing the sample id, the forward name containing the forward
\* marker and the reverse name the reverse marker.
C3_ValidPairInvoked ==
    \A c \in calls :
        /\ c.fwd_reads # None
        /\ c.rev_reads # None
        /\ Contains(c.sample_id, c.fwd_reads)
        /\ Contains(c.sample_id, c.rev_reads)
        /\ Contains(fwd_id, c.fwd_reads)
        /\ Contains(rev_id, c.rev_reads)

\* A pipeline invocation for a sample while the list holds a forward read of
\* another sample.
C3_Witness ==
    \E c \in calls : \E i \in 1..Len(fastq_file_list) :
        /\ ~Contains(c.sample_id, fastq_file_list[i])
        /\ Contains(fwd_id, fastq_file_list[i])

\* The ids of the files named {id}_R1... and {id}_R2...
IdPool == {IdS1, IdS10, IdS1x}

IsPrefix(p, s) == Len(p) <= Len(s) /\ SubSeq(s, 1, Len(p)) = p

\* f is named {id}{marker}...
NamedFor(f, id, marker) == IsPrefix(id \o marker, f)

FilesNamed(id, marker) ==
    {i \in 1..Len(fastq_file_list) : NamedFor(fastq_file_list[i], id, marker)}

\* The scanned list is one {id}_R1... and one {id}_R2... file for each id of K.
InputOfForm(K) ==
    /\ Len(fastq_file_list) = 2 * Cardinality(K)
    /\ \A id \in K : /\ Cardinality(FilesNamed(id, MarkR1)) = 1
                     /\ Cardinality(FilesNamed(id, MarkR2)) = 1

\* K sample ids are listed and each resolves to a pair.
KSamplesAllPaired(K) ==
    /\ Len(sample_ids) = Cardinality(K)
    /\ \A i \in 1..Len(sample_ids) :
          get_readpair(sample_ids[i], fastq_file_list, fwd_id, rev_id) # None

\* No id of K holds an underscore, and no {id}_R2... file name holds the forward marker.
PlainIds(K) ==
    /\ \A id \in K : ~Contains(<<"_">>, id)
    /\ \A id \in K : \A i \in FilesNamed(id, MarkR2) : ~Contains(MarkR1, fastq_file_list[i])

\* C4 as stated: for one {id}_R1... and one {id}_R2... file for each of K
\* distinct ids, under the default markers, exactly K sample ids are listed
\* and each resolves to a pair with both members.
C4_KIdsKPairs ==
    (Listed /\ DefaultMarkers) =>
        \A K \in SUBSET IdPool : InputOfForm(K) => KSamplesAllPaired(K)

\* C4 amended: the same, for ids without underscore and {id}_R2... names
\* without the forward marker.
C4_KPlainIdsKPairs ==
    (Listed /\ DefaultMarkers) =>
        \A K \in SUBSET IdPool : (InputOfForm(K) /\ PlainIds(K)) => KSamplesAllPaired(K)

\* Two plain ids, four files, both samples cleaned up.
C4_Witness ==
    /\ Listed /\ DefaultMarkers
    /\ \E K \in SUBSET IdPool : Cardinality(K) = 2 /\ InputOfForm(K) /\ PlainIds(K)
    /\ cleaned = Range(sample_ids)

\* The positions of the files that take the forward slot of s, and the reverse
\* slot: a name holding both markers takes the forward one.
FwdMatches(s) ==
    {i \in 1..Len(fastq_file_list) :
        Contains(s, fastq_file_list[i]) /\ Contains(fwd_id, fastq_file_list[i])}

RevMatches(s) ==
    {i \in 1..Len(fastq_file_list) :
        /\ Contains(s, fastq_file_list[i])
        /\ ~Contains(fwd_id, fastq_file_list[i])
        /\ Contains(rev_id, fastq_file_list[i])}

PrefixBeforeUnderscore(name) ==
    LET us == {i \in 1..Len(name) : name[i] = "_"}
    IN  IF us = {} THEN name
        ELSE SubSeq(name, 1, (CHOOSE i \in us : \A j \in us : i <= j) - 1)

\* C6: the sample ids listed are exactly the distinct prefixes before the first
\* underscore of the scanned names (the whole name when it has none), each once.
C6_DistinctPrefixes ==
    Listed =>
        /\ Range(sample_ids) = {PrefixBeforeUnderscore(f) : f \in Range(fastq_file_list)}
        /\ \A i, j \in 1..Len(sample_ids) : sample_ids[i] = sample_ids[j] => i = j

\* Listed from two files of one sample and a file without underscore.
C6_Witness ==
    /\ Listed
    /\ \E i, j \in 1..Len(fastq_file_list) :
          /\ i # j
          /\ PrefixBeforeUnderscore(fastq_file_list[i]) = PrefixBeforeUnderscore(fastq_file_list[j])
    /\ \E i \in 1..Len(fastq_file_list) :
          PrefixBeforeUnderscore(fastq_file_list[i]) = fastq_file_list[i]

\* C7: with the input directory absent the run does not get past the scan.
C7_AbsentInputDirIsFatal ==
    ~input_dir.exists =>
        pc \notin {"ids", "pair", "mkdir", "pipeline", "cleanup", "complete", "done"}

InFlightStates == {"Paired", "DirectoryReady", "PipelineComplete"}
RestStates == {"Discovered", "CleanedUp", "PairingFailed"}

SampleSteps ==
    { <<"Discovered", "Paired">>, <<"Paired", "DirectoryReady">>,
      <<"DirectoryReady", "PipelineComplete">>, <<"PipelineComplete", "CleanedUp">>,
      <<"Discovered", "PairingFailed">> }

InFlight == {s \in DOMAIN status : status[s] \in InFlightStates}

\* What was done for a sample agrees with how far it got.
EffectsFollowStatus ==
    /\ dirs = {s \in DOMAIN status : status[s] \in {"DirectoryReady", "PipelineComplete", "CleanedUp"}}
    /\ cleaned = {s \in DOMAIN status : status[s] = "CleanedUp"}
    /\ \A s \in DOMAIN status :
          /\ status[s] \in {"PipelineComplete", "CleanedUp"} => CalledFor(s)
          /\ CalledFor(s) => s \in dirs

\* A sample moves one step of its state machine at a time, and only while
\* every other sample is at rest.
OneSampleSteps ==
    \A s \in (DOMAIN status) \cap (DOMAIN status') :
        status'[s] # status[s] =>
            /\ <<status[s], status'[s]>> \in SampleSteps
            /\ \A t \in (DOMAIN status) \ {s} :
                  status[t] \in RestStates /\ status'[t] = status[t]

\* C8: samples are processed one at a time, each through pairing, directory
\* creation, pipeline and clean-up in that order, and never two between
\* Paired and CleanedUp at once.
C8_OneSampleAtATime ==
    /\ [](Cardinality(InFlight) <= 1 /\ EffectsFollowStatus)
    /\ [][OneSampleSteps]_vars

\* The pipeline returned for a second sample after a first was cleaned up.
C8_Witness ==
    /\ cleaned # {}
    /\ pc = "cleanup"
    /\ \E s \in DOMAIN status : status[s] = "PipelineComplete"

\* C9: once directory creation, assembly_pipeline or clean_up failed for a
\* sample the run has ended: no statement of assemble_dir runs any more.
C9_FailureAbortsBatch ==
    err \in {"makedirs", "assembly_pipeline", "clean_up"} =>
        pc = "error" /\ ~ENABLED Next

\* The pipeline failed for a sample while another was still to be processed.
C9_Witness ==
    /\ err = "assembly_pipeline"
    /\ \E s \in DOMAIN status : status[s] = "Discovered"

\* C10: both files handed to the pipeline of a sample have that sample's id as
\* their prefix before the first underscore.
C10_PairBelongsToSample ==
    \A c \in calls :
        /\ split(c.fwd_reads, "_")[1] = c.sample_id
        /\ split(c.rev_reads, "_")[1] = c.sample_id

====
